---- MODULE Spec2Model ----
(***************************************************************************)
(* A model of exc_tree.py: discovery of the Exception subclasses of a      *)
(* module or package, reconstruction of their inheritance tree             *)
(* (build_inheritance_tree) and its rendering (print_tree).                *)
(*                                                                         *)
(* A class is a string (its identity).  Every class carries the Python     *)
(* attributes the program reads: __bases__, __mro__ (the C3 linearization  *)
(* Python computes when the class is created), __module__ and __name__.    *)
(* Strings the program compares or lower-cases are sequences of one-       *)
(* character strings, so that str.lower() and the code-point order of      *)
(* list.sort are computed, not assumed.                                    *)
(***************************************************************************)
EXTENDS Naturals, Sequences, FiniteSets, TLC

\* ------------------------------------------------------------------ bounds
\* Number of user-defined classes in the interpreter.
NumUser == 3
\* Largest number of direct bases of a user-defined class.
MaxBases == 2
\* Number of submodules pkgutil.walk_packages yields for a package.
NumSubmodules == 2

\* ----------------------------------------------------------------- helpers
Range(s) == {s[i] : i \in 1..Len(s)}

Min(S) == CHOOSE m \in S : \A n \in S : m <= n

\* All sequences without repetition over S of length 1..n.
InjSeqs(S, n) ==
    {s \in UNION {[1..k -> S] : k \in 1..n} :
       \A i, j \in DOMAIN s : i # j => s[i] # s[j]}

\* All enumerations (permutations as sequences) of the finite set S.
Enumerations(S) == {s \in [1..Cardinality(S) -> S] : Range(s) = S}

\* ---------------------------------------------------------- class universe
\* The three builtin classes every exception's __mro__ ends with.
object == "object"
BaseException == "BaseException"
Exception == "Exception"

Builtins == {object, BaseException, Exception}

\* User-defined classes in definition order: a class can only name classes
\* that exist already as its bases.
UserSeq == <<"K1", "K2", "K3", "K4", "K5">>

UserClasses == {UserSeq[i] : i \in 1..NumUser}

Classes == Builtins \cup UserClasses

\* cls.__module__ : K1, K2 and K4 share a module; K3 lives in a submodule.
ModuleOf(c) ==
    CASE c \in Builtins -> <<"b", "u", "i", "l", "t", "i", "n", "s">>
      [] c = "K3" -> <<"m", ".", "x">>
      [] c = "K5" -> <<"m", ".", "y">>
      [] OTHER -> <<"m">>

\* cls.__name__ : K1 and K2 differ only in letter case, K4 is a second class
\* with K1's name (a name rebound in its module).
NameOf(c) ==
    CASE c = object -> <<"o", "b", "j", "e", "c", "t">>
      [] c = BaseException -> <<"B", "a", "s", "e", "E", "x", "c", "e", "p", "t", "i", "o", "n">>
      [] c = Exception -> <<"E", "x", "c", "e", "p", "t", "i", "o", "n">>
      [] c = "K1" -> <<"E", "r", "r">>
      [] c = "K2" -> <<"e", "r", "r">>
      [] c = "K3" -> <<"A", "b", "c">>
      [] c = "K4" -> <<"E", "r", "r">>
      [] OTHER -> <<"Z", "e", "d">>

\* ------------------------------------------- Python's C3 linearization (MRO)
\* The marker a failed merge leaves: Python raises TypeError ("Cannot create
\* a consistent method resolution order") and the class is never created.
MroConflict == "TypeError"

RECURSIVE C3Merge(_)
C3Merge(lists) ==
    LET ne == SelectSeq(lists, LAMBDA s : Len(s) > 0)
    IN IF Len(ne) = 0 THEN <<>>
       ELSE LET good(i) == \A j \in 1..Len(ne) : Head(ne[i]) \notin Range(Tail(ne[j]))
                cands == {i \in 1..Len(ne) : good(i)}
            IN IF cands = {} THEN <<MroConflict>>
               ELSE LET h == Head(ne[Min(cands)])
                    IN <<h>> \o C3Merge([j \in 1..Len(ne) |->
                                           IF Head(ne[j]) = h THEN Tail(ne[j]) ELSE ne[j]])

\* type.__new__: the __mro__ of a new class c with direct bases bs, given the
\* classes that exist (a function class -> [bases, mro]).
Linearize(existing, c, bs) ==
    <<c>> \o C3Merge([i \in 1..Len(bs) |-> existing[bs[i]].mro] \o <<bs>>)

BuiltinTypes ==
    (object :> [bases |-> <<>>, mro |-> <<object>>])
    @@ (BaseException :> [bases |-> <<object>>, mro |-> <<BaseException, object>>])
    @@ (Exception :> [bases |-> <<BaseException>>,
                      mro |-> <<Exception, BaseException, object>>])

\* The base lists a class statement may give to a new user class: object
\* alone (a plain class, a mixin), or up to MaxBases distinct classes among
\* Exception and the user classes defined so far, in an order C3 accepts.
BaseChoices(existing) ==
    LET pool == (DOMAIN existing) \ {object, BaseException}
    IN {<<object>>} \cup InjSeqs(pool, MaxBases)

RECURSIVE TypesUpTo(_)
TypesUpTo(n) ==
    IF n = 0 THEN {BuiltinTypes}
    ELSE UNION {
           {existing @@ (UserSeq[n] :> [bases |-> bs,
                                         mro |-> Linearize(existing, UserSeq[n], bs)]) :
              bs \in {b \in BaseChoices(existing) :
                        MroConflict \notin Range(Linearize(existing, UserSeq[n], b))}} :
           existing \in TypesUpTo(n - 1)}

\* Every set of class definitions the interpreter can hold.
Hierarchies == TypesUpTo(NumUser)

\* ------------------------------------------------------------ class state
\* types[c] holds c.__bases__ and c.__mro__ for every class of the interpreter.
VARIABLES types

\* issubclass(c, d): d occurs in c's __mro__.
IsSubclass(c, d) == d \in Range(types[c].mro)

\* ------------------------------------------------------------------ strings
\* The characters of the names, in code-point order.
Ascii ==
    <<".", "A", "B", "C", "D", "E", "F", "G", "H", "I", "J", "K", "L", "M",
      "N", "O", "P", "Q", "R", "S", "T", "U", "V", "W", "X", "Y", "Z",
      "a", "b", "c", "d", "e", "f", "g", "h", "i", "j", "k", "l", "m",
      "n", "o", "p", "q", "r", "s", "t", "u", "v", "w", "x", "y", "z">>

\* ord(ch), up to the offset of the first character of Ascii.
OrdTable == [ch \in Range(Ascii) |-> CHOOSE i \in 1..Len(Ascii) : Ascii[i] = ch]

Ord(ch) == OrdTable[ch]

IsUpper(ch) == Ord("A") <= Ord(ch) /\ Ord(ch) <= Ord("Z")

\* str.lower(), character by character.
Lower(str) ==
    [i \in 1..Len(str) |->
       IF IsUpper(str[i]) THEN Ascii[Ord(str[i]) + (Ord("a") - Ord("A"))] ELSE str[i]]

\* Python's str.__lt__: lexicographic by code point, a proper prefix first.
RECURSIVE StrLess(_, _)
StrLess(a, b) ==
    IF Len(b) = 0 THEN FALSE
    ELSE IF Len(a) = 0 THEN TRUE
    ELSE IF Head(a) # Head(b) THEN Ord(Head(a)) < Ord(Head(b))
    ELSE StrLess(Tail(a), Tail(b))

get_display_name(cls) ==
    IF ModuleOf(cls) = <<"b", "u", "i", "l", "t", "i", "n", "s">>
    THEN NameOf(cls)
    ELSE ModuleOf(cls) \o <<".">> \o NameOf(cls)

\* The sort key of _sort_children, get_display_name(c).lower(), per class.
SortKeys == [c \in Classes |-> Lower(get_display_name(c))]

SortKey(c) == SortKeys[c]

\* list.sort(key=...): a stable sort; equal keys keep their list order.
RECURSIVE StableSort(_)
StableSort(lst) ==
    IF Len(lst) <= 1 THEN lst
    ELSE LET front == StableSort(SubSeq(lst, 1, Len(lst) - 1))
             x == lst[Len(lst)]
             \* x goes after every element whose key is not greater than its own
             pos == Cardinality({i \in 1..Len(front) : ~StrLess(SortKey(x), SortKey(front[i]))})
         IN SubSeq(front, 1, pos) \o <<x>> \o SubSeq(front, pos + 1, Len(front))

\* -------------------------------------------------------------- the engine
\* Iterating a Python set visits its members in hash-table order, which for
\* classes depends on their addresses.  `order` is an enumeration of all
\* classes standing for that order; a set is iterated along it.
IterSet(S, order) == SelectSeq(order, LAMBDA c : c \in S)

\* GatherWalk with `break` in place of `continue`: the walk ends at the first
\* ancestor that is no Exception subclass.
RECURSIVE GatherWalkStopping(_, _)
GatherWalkStopping(mro, i) ==
    IF i > Len(mro) THEN {}
    ELSE IF mro[i] = object THEN {}
    ELSE IF ~IsSubclass(mro[i], Exception) THEN {}
    ELSE {mro[i]} \cup GatherWalkStopping(mro, i + 1)

\* The inner loop of _gather_nodes over one class's __mro__, from index i:
\* `break` at object, `continue` past an ancestor that is no Exception
\* subclass, nodes.add otherwise.
RECURSIVE GatherWalk(_, _)
GatherWalk(mro, i) ==
    IF i > Len(mro) THEN {}
    ELSE IF mro[i] = object THEN {}
    ELSE IF ~IsSubclass(mro[i], Exception) THEN GatherWalk(mro, i + 1)
    ELSE {mro[i]} \cup GatherWalk(mro, i + 1)

\* _gather_nodes without the walk of __mro__: nodes.add(cls) only.
GatherOnlyInputs(exc_classes, root) == {root} \cup exc_classes

_gather_nodes(exc_classes, root) ==
    {root} \cup UNION {GatherWalk(types[cls].mro, 1) : cls \in exc_classes}

\* FirstInNodes without the `break`: the last ancestor in nodes wins.
RECURSIVE LastInNodes(_, _, _)
LastInNodes(mro, i, nodes) ==
    IF i > Len(mro) THEN {}
    ELSE LET later == LastInNodes(mro, i + 1, nodes)
         IN IF later # {} THEN later
            ELSE IF mro[i] \in nodes THEN {mro[i]} ELSE {}

\* The inner loop of _build_parent_map: the first class of mro[i..] that is
\* in nodes, or no class at all (the loop ends without an assignment).
RECURSIVE FirstInNodes(_, _, _)
FirstInNodes(mro, i, nodes) ==
    IF i > Len(mro) THEN {}
    ELSE IF mro[i] \in nodes THEN {mro[i]}
    ELSE FirstInNodes(mro, i + 1, nodes)

\* A dict is a sequence of <<key, value>> pairs in insertion order.
RECURSIVE ParentMapLoop(_, _, _, _)
ParentMapLoop(iter, i, nodes, root) ==
    IF i > Len(iter) THEN <<>>
    ELSE LET cls == iter[i]
             found == FirstInNodes(types[cls].mro, 2, nodes)
             rest == ParentMapLoop(iter, i + 1, nodes, root)
         IN IF cls = root \/ found = {} THEN rest
            ELSE <<<<cls, CHOOSE anc \in found : TRUE>>>> \o rest

_build_parent_map(nodes, root, order) ==
    ParentMapLoop(IterSet(nodes, order), 1, nodes, root)

\* children.get(key, [])
Get(children, key) == IF key \in DOMAIN children THEN children[key] ELSE <<>>

\* children.setdefault(key, []).append(value)
SetDefaultAppend(children, key, value) ==
    IF key \in DOMAIN children
    THEN [children EXCEPT ![key] = Append(@, value)]
    ELSE children @@ (key :> <<value>>)

\* The empty dict.
EmptyDict == [k \in {} |-> <<>>]

RECURSIVE InvertLoop(_, _, _)
InvertLoop(parent_map, i, children) ==
    IF i > Len(parent_map) THEN children
    ELSE InvertLoop(parent_map, i + 1,
                    SetDefaultAppend(children, parent_map[i][2], parent_map[i][1]))

\* _invert_parent_map with key and value exchanged:
\* children.setdefault(child, []).append(parent).
RECURSIVE InvertLoopSwapped(_, _, _)
InvertLoopSwapped(parent_map, i, children) ==
    IF i > Len(parent_map) THEN children
    ELSE InvertLoopSwapped(parent_map, i + 1,
                           SetDefaultAppend(children, parent_map[i][1], parent_map[i][2]))

InvertSwapped(parent_map) == InvertLoopSwapped(parent_map, 1, EmptyDict)

_invert_parent_map(parent_map) == InvertLoop(parent_map, 1, EmptyDict)

\* _sort_children that rebuilds the dict from the lists worth sorting only,
\* losing every key with a single child.
SortDroppingSingles(children) ==
    [k \in {key \in DOMAIN children : Len(children[key]) > 1} |-> StableSort(children[k])]

_sort_children(children) == [k \in DOMAIN children |-> StableSort(children[k])]

\* [b for b in cls.__bases__ if b in nodes]
DirectParents(cls, nodes) == SelectSeq(types[cls].bases, LAMBDA b : b \in nodes)

_detect_multi_parents(nodes) ==
    {cls \in nodes : cls # Exception /\ Len(DirectParents(cls, nodes)) > 1}

\* DuplicateBases without the membership test: always append.
RECURSIVE DuplicateBasesAlways(_, _, _, _)
DuplicateBasesAlways(children, cls, direct_parents, j) ==
    IF j > Len(direct_parents) THEN children
    ELSE DuplicateBasesAlways(SetDefaultAppend(children, direct_parents[j], cls),
                              cls, direct_parents, j + 1)

RECURSIVE DuplicateBases(_, _, _, _)
DuplicateBases(children, cls, direct_parents, j) ==
    IF j > Len(direct_parents) THEN children
    ELSE LET base == direct_parents[j]
         IN DuplicateBases(IF cls \notin Range(Get(children, base))
                           THEN SetDefaultAppend(children, base, cls)
                           ELSE children,
                           cls, direct_parents, j + 1)

RECURSIVE DuplicateLoop(_, _, _, _)
DuplicateLoop(children, iter, i, nodes) ==
    IF i > Len(iter) THEN children
    ELSE DuplicateLoop(DuplicateBases(children, iter[i], DirectParents(iter[i], nodes), 1),
                       iter, i + 1, nodes)

_duplicate_multi_parents(children, multi_parents, nodes, order) ==
    DuplicateLoop(children, IterSet(multi_parents, order), 1, nodes)

\* build_inheritance_tree, all of it: the values of its locals at return.
build_inheritance_tree(exc_classes, all_paths, order) ==
    LET root == Exception
        nodes == _gather_nodes(exc_classes, root)
        parent_map == _build_parent_map(nodes, root, order)
        children == _sort_children(_invert_parent_map(parent_map))
        multi_parents == _detect_multi_parents(nodes)
    IN [root |-> root,
        nodes |-> nodes,
        parent_map |-> parent_map,
        multi_parents |-> multi_parents,
        children |-> IF all_paths
                     THEN _sort_children(
                              _duplicate_multi_parents(children, multi_parents, nodes, order))
                     ELSE children]

\* ------------------------------------------------------------ the renderer
\* An output line is the sequence of the pieces print() joins: indentation
\* units, a connector, the characters of the display name, the marker.
\* The box-drawing glyphs are written in ASCII here: Tee is U+251C U+2500
\* U+2500 and a space, Elbow is U+2514 U+2500 U+2500 and a space, Pipe is
\* U+2502 and three spaces.
Tee == "+-- "
Elbow == "L-- "
Pipe == "!   "
Blank == "    "
Bar == "|"
Star == " *"

NodeLine(indent, last, child, multi_parents) ==
    indent \o <<IF last THEN Elbow ELSE Tee>> \o get_display_name(child)
           \o (IF child \in multi_parents THEN <<Star>> ELSE <<>>)

RECURSIVE _print_subtree(_, _, _, _, _)
RECURSIVE PrintSubtreeLoop(_, _, _, _, _, _)
\* One iteration of the loop of _print_subtree (idx counts from 1), followed
\* by the remaining iterations.
PrintSubtreeLoop(kids, idx, children_map, indent, compact, multi_parents) ==
    IF idx > Len(kids) THEN <<>>
    ELSE LET child == kids[idx]
             last == (idx = Len(kids))
             separator == IF ~compact /\ idx > 1 /\ Len(Get(children_map, kids[idx - 1])) > 0
                          THEN <<indent \o <<Bar>>>>
                          ELSE <<>>
             subtree == IF Len(Get(children_map, child)) > 0
                        THEN _print_subtree(child, children_map,
                                            indent \o <<IF last THEN Blank ELSE Pipe>>,
                                            compact, multi_parents)
                        ELSE <<>>
         IN separator \o <<NodeLine(indent, last, child, multi_parents)>> \o subtree
            \o PrintSubtreeLoop(kids, idx + 1, children_map, indent, compact, multi_parents)

\* _print_subtree that never looks at compact: the separator is always printed.
PrintSubtreeIgnoringCompact(node, children_map, indent, compact, multi_parents) ==
    PrintSubtreeLoop(Get(children_map, node), 1, children_map, indent, FALSE, multi_parents)

\* _print_subtree whose loop starts one child too late.
PrintSubtreeSkippingFirst(node, children_map, indent, compact, multi_parents) ==
    PrintSubtreeLoop(Get(children_map, node), 2, children_map, indent, compact, multi_parents)

_print_subtree(node, children_map, indent, compact, multi_parents) ==
    PrintSubtreeLoop(Get(children_map, node), 1, children_map, indent, compact, multi_parents)

RECURSIVE PrintTreeLoop(_, _, _, _, _)
PrintTreeLoop(kids, idx, children_map, multi_parents, compact) ==
    IF idx > Len(kids) THEN <<>>
    ELSE LET child == kids[idx]
             last == (idx = Len(kids))
         IN (IF ~compact THEN <<<<Bar>>>> ELSE <<>>)
            \o <<NodeLine(<<>>, last, child, multi_parents)>>
            \o _print_subtree(child, children_map, <<IF last THEN Blank ELSE Pipe>>,
                              compact, multi_parents)
            \o PrintTreeLoop(kids, idx + 1, children_map, multi_parents, compact)

print_tree(root, children_map, multi_parents, compact) ==
    <<get_display_name(root)>>
    \o PrintTreeLoop(Get(children_map, root), 1, children_map, multi_parents, compact)

\* ---------------------------------------------------------------- discovery
\* The package given on the command line and the submodules walk_packages
\* yields for it, by name.
RootName == <<"m">>
SubmoduleNames == <<<<"m", ".", "x">>, <<"m", ".", "y">>, <<"m", ".", "z">>>>

\* What importlib.import_module(name) does: return the module, raise
\* ImportError, or raise any other exception the module's own code raises
\* while it is executed (SyntaxError, ValueError, ...).
LoadOutcomes == {"ok", "ImportError", "OtherError"}

\* The classes inspect.getmembers finds in the loaded modules that pass the
\* __module__ filter and the issubclass test.
ExceptionsIn(modules) ==
    {cls \in Classes : ModuleOf(cls) \in Range(modules) /\ IsSubclass(cls, Exception)}

\* The class definitions of the inspected package in the runs of main().
MainHierarchies ==
    {h \in Hierarchies :
       \A c \in UserClasses : h[c].bases \in {<<object>>, <<Exception>>, <<"K1">>}}

\* ------------------------------------------------------------ program state
VARIABLES
    pc,            \* where the program is
    root_load,     \* outcome of importing the root module
    is_package,    \* hasattr(root, "__path__")
    sub_load,      \* outcome of importing each submodule, in walk order
    walk_idx,      \* next submodule of the walk
    modules,       \* names of the modules imported so far
    exit_code,     \* "none", or how the process ended early
    exc_classes,   \* the set of classes handed to build_inheritance_tree
    all_paths,     \* the all_paths argument of the build (False, its default, before)
    compact,       \* the compact argument of the print (False, its default, before)
    nodes, parent_map, children, multi_parents,  \* locals of build_inheritance_tree
    output         \* the lines printed to stdout

vars == <<types, pc, root_load, is_package, sub_load, walk_idx, modules, exit_code,
          exc_classes, all_paths, compact, nodes, parent_map, children,
          multi_parents, output>>

discovery_vars == <<root_load, is_package, sub_load, walk_idx, modules>>
engine_vars == <<nodes, parent_map, children, multi_parents>>

\* main() starts on a package or module name.
InitMain ==
    /\ pc = "import_root"
    /\ types \in MainHierarchies
    /\ root_load \in LoadOutcomes
    /\ is_package \in BOOLEAN
    /\ sub_load \in [1..NumSubmodules -> LoadOutcomes]
    /\ exc_classes = {}

\* A caller hands build_inheritance_tree a set of Exception classes directly.
InitCall ==
    /\ pc = "build"
    /\ types \in Hierarchies
    /\ root_load = "ok"
    /\ is_package = FALSE
    /\ sub_load = [i \in 1..NumSubmodules |-> "ok"]
    /\ exc_classes \in SUBSET {c \in Classes : IsSubclass(c, Exception)}

Init ==
    /\ InitMain \/ InitCall
    /\ all_paths = FALSE
    /\ compact = FALSE
    /\ walk_idx = 1
    /\ modules = <<>>
    /\ exit_code = "none"
    /\ nodes = {}
    /\ parent_map = <<>>
    /\ children = EmptyDict
    /\ multi_parents = {}
    /\ output = <<>>

\* find_exceptions_recursive, lines 29-37: import the root.
ImportRoot ==
    /\ pc = "import_root"
    /\ CASE root_load = "ImportError" ->
              /\ pc' = "exited"
              /\ exit_code' = "10"
              /\ UNCHANGED modules
         [] root_load = "OtherError" ->
              /\ pc' = "exited"
              /\ exit_code' = "traceback"
              /\ UNCHANGED modules
         [] OTHER ->
              /\ pc' = IF is_package /\ NumSubmodules > 0 THEN "walk" ELSE "collect"
              /\ modules' = <<RootName>>
              /\ UNCHANGED exit_code
    /\ UNCHANGED <<types, root_load, is_package, sub_load, walk_idx, exc_classes,
                   all_paths, compact, engine_vars, output>>

\* One iteration of the loop over walk_packages, lines 38-44.
ImportSubmodule ==
    /\ pc = "walk"
    /\ walk_idx <= NumSubmodules
    /\ CASE sub_load[walk_idx] = "ok" ->
              /\ modules' = Append(modules, SubmoduleNames[walk_idx])
              /\ pc' = IF walk_idx = NumSubmodules THEN "collect" ELSE "walk"
              /\ UNCHANGED exit_code
         [] sub_load[walk_idx] = "ImportError" ->
              /\ pc' = IF walk_idx = NumSubmodules THEN "collect" ELSE "walk"
              /\ UNCHANGED <<modules, exit_code>>
         [] OTHER ->
              \* not an ImportError: the except clause does not match, the
              \* exception leaves find_exceptions_recursive and main
              /\ pc' = "exited"
              /\ exit_code' = "traceback"
              /\ UNCHANGED modules
    /\ walk_idx' = walk_idx + 1
    /\ UNCHANGED <<types, root_load, is_package, sub_load, exc_classes,
                   all_paths, compact, engine_vars, output>>

\* Lines 46-55: collect the Exception subclasses of the imported modules.
CollectExceptions ==
    /\ pc = "collect"
    /\ exc_classes' = ExceptionsIn(modules)
    /\ pc' = "check_empty"
    /\ UNCHANGED <<types, discovery_vars, exit_code, all_paths, compact,
                   engine_vars, output>>

\* main, lines 213-216.
MainCheckEmpty ==
    /\ pc = "check_empty"
    /\ IF exc_classes = {}
       THEN pc' = "exited" /\ exit_code' = "1"
       ELSE pc' = "build" /\ UNCHANGED exit_code
    /\ UNCHANGED <<types, discovery_vars, exc_classes, all_paths, compact,
                   engine_vars, output>>

\* build_inheritance_tree(exc_classes, all_paths): all_paths is the caller's
\* choice (-a in main), `order` whatever order the sets happen to iterate in.
Build ==
    /\ pc = "build"
    /\ \E flag \in BOOLEAN :
       \E order \in Enumerations(_gather_nodes(exc_classes, Exception) \ {Exception}) :
          LET r == build_inheritance_tree(exc_classes, flag, <<Exception>> \o order)
          IN /\ all_paths' = flag
             /\ nodes' = r.nodes
             /\ parent_map' = r.parent_map
             /\ children' = r.children
             /\ multi_parents' = r.multi_parents
    /\ pc' = "print"
    /\ UNCHANGED <<types, discovery_vars, exit_code, exc_classes, compact, output>>

\* print_tree(root, children, multi_parents, compact): compact is the
\* caller's choice (-c in main).
PrintTree ==
    /\ pc = "print"
    /\ \E flag \in BOOLEAN :
          /\ compact' = flag
          /\ output' = print_tree(Exception, children, multi_parents, flag)
    /\ pc' = "done"
    /\ UNCHANGED <<types, discovery_vars, exit_code, exc_classes, all_paths,
                   engine_vars>>

Next ==
    \/ ImportRoot
    \/ ImportSubmodule
    \/ CollectExceptions
    \/ MainCheckEmpty
    \/ Build
    \/ PrintTree

Spec == Init /\ [][Next]_vars

\* ============================================================== properties
\* build_inheritance_tree has returned.
Built == pc \in {"print", "done"}

Count(x, lst) == Cardinality({i \in 1..Len(lst) : lst[i] = x})

\* The keys of parent_map and the value recorded for a key.
ParentKeys == {parent_map[i][1] : i \in 1..Len(parent_map)}
ParentOf(n) == parent_map[CHOOSE i \in 1..Len(parent_map) : parent_map[i][1] = n][2]

\* c.__mro__
MroOf(c) == types[c].mro

\* C1: after build_inheritance_tree the parent map is total over NodeSet
\* minus the root, each key is recorded once, and the parent of a non-root
\* node n is the first class of n's __mro__ after n itself that is in
\* NodeSet; no node is its own parent and the root has no parent.
C1_ParentIsNearestAncestorInNodes ==
    Built =>
      /\ ParentKeys = nodes \ {Exception}
      /\ \A i, j \in 1..Len(parent_map) : parent_map[i][1] = parent_map[j][1] => i = j
      /\ \A n \in ParentKeys :
            /\ ParentOf(n) # n
            /\ ParentOf(n) \in nodes
            /\ \E k \in 2..Len(MroOf(n)) :
                  /\ MroOf(n)[k] = ParentOf(n)
                  /\ \A j \in 2..(k - 1) : MroOf(n)[j] \notin nodes

\* A node whose immediate __mro__ successor is not in NodeSet (a mixin sits
\* between it and its parent) has been given a parent further up the chain.
C1_Witness ==
    /\ Built
    /\ \E n \in ParentKeys : MroOf(n)[2] \notin nodes /\ ParentOf(n) # Exception

\* C2: with all_paths = False the children map is the inverse of the parent
\* map: every non-root node occurs exactly once in the list of its parent
\* and in no other list, the root occurs in no list, the lists hold nodes
\* only and every key is a node.
C2_ChildrenInverseOfParents ==
    (Built /\ ~all_paths) =>
      /\ DOMAIN children \subseteq nodes
      /\ \A k \in DOMAIN children :
            /\ Range(children[k]) \subseteq nodes \ {Exception}
            /\ \A n \in Range(children[k]) : n \in ParentKeys /\ ParentOf(n) = k
      /\ \A n \in nodes \ {Exception} :
            /\ n \in ParentKeys
            /\ ParentOf(n) \in DOMAIN children
            /\ \A k \in DOMAIN children :
                  Count(n, children[k]) = (IF k = ParentOf(n) THEN 1 ELSE 0)

\* Without duplication, a tree with a multi-parent node and a parent of
\* several children has been built.
C2_Witness ==
    /\ Built
    /\ ~all_paths
    /\ multi_parents # {}
    /\ \E k \in DOMAIN children : Len(children[k]) > 1

\* The direct parents of n that are nodes.
DirectParentSet(n) == {b \in Range(types[n].bases) : b \in nodes}

\* C3: for every node n of the multi-parent set: with all_paths, n occurs
\* exactly once in the children list of each of its direct parents that is
\* in NodeSet; without, n occurs once in the list of the direct parent the
\* parent map selected and in no other list.
C3_MultiParentOccurrences ==
    Built =>
      \A n \in multi_parents :
         IF all_paths
         THEN \A p \in DirectParentSet(n) : Count(n, Get(children, p)) = 1
         ELSE /\ n \in ParentKeys
              /\ ParentOf(n) \in DirectParentSet(n)
              /\ \A k \in DOMAIN children :
                    Count(n, children[k]) = (IF k = ParentOf(n) THEN 1 ELSE 0)

\* With duplication, some multi-parent node stands in the lists of two
\* different parents.
C3_Witness ==
    /\ Built
    /\ all_paths
    /\ \E n \in multi_parents :
          \E p, q \in DirectParentSet(n) :
             p # q /\ Count(n, Get(children, p)) = 1 /\ Count(n, Get(children, q)) = 1

\* C4 as stated: for a non-empty input the returned children map has the
\* root as a key.
C4_RootAlwaysKey ==
    (Built /\ exc_classes # {}) => Exception \in DOMAIN children

\* C4 as the code has it: the root is a key of the returned children map
\* exactly when the input holds an Exception subclass other than the root,
\* and its list is then non-empty; for an input holding the root alone the
\* map is empty.
C4_RootKeyIffProperSubclass ==
    Built =>
      /\ Exception \in DOMAIN children <=> (exc_classes \ {Exception} # {})
      /\ Exception \in DOMAIN children => Len(children[Exception]) > 0
      /\ exc_classes \subseteq {Exception} => children = EmptyDict

\* The build of the input {Exception} has returned the empty map.
C4_Witness ==
    /\ Built
    /\ exc_classes = {Exception}
    /\ Exception \notin DOMAIN children

\* The order in which the classes were defined.
DefinitionOrder == <<Exception>> \o SubSeq(UserSeq, 1, NumUser)

\* C5: the printed lines do not depend on the iteration order of the sets:
\* they are the lines of the build that iterates in definition order.
C5_OutputIndependentOfOrder ==
    pc = "done" =>
      output = print_tree(Exception,
                          build_inheritance_tree(exc_classes, all_paths, DefinitionOrder).children,
                          multi_parents, compact)

\* A separator line: indentation followed by a lone bar.
IsSeparator(line) ==
    /\ Len(line) >= 1
    /\ line[Len(line)] = Bar
    /\ \A i \in 1..(Len(line) - 1) : line[i] \in {Pipe, Blank}

StripSeparators(lines) == SelectSeq(lines, LAMBDA l : ~IsSeparator(l))

\* C6: the compact rendering of a built tree is its non-compact rendering
\* with the separator lines removed.
C6_CompactIsStrippedExpanded ==
    pc = "done" =>
      /\ compact =>
            output = StripSeparators(print_tree(Exception, children, multi_parents, FALSE))
      /\ ~compact =>
            StripSeparators(output) = print_tree(Exception, children, multi_parents, TRUE)

\* A non-compact rendering with a separator below the root level and one at
\* the root level has been printed.
C6_Witness ==
    /\ pc = "done"
    /\ ~compact
    /\ \E i, j \in 1..Len(output) :
          /\ IsSeparator(output[i]) /\ Len(output[i]) > 1
          /\ IsSeparator(output[j]) /\ Len(output[j]) = 1

\* C7: NodeSet is closed under Exception ancestry: with a node it holds
\* every class of the node's __mro__ that is an Exception subclass.
C7_NodesClosedUnderAncestry ==
    Built =>
      /\ Exception \in nodes
      /\ \A n \in nodes : \A a \in Range(MroOf(n)) : IsSubclass(a, Exception) => a \in nodes

\* An input class whose __mro__ has a mixin between two Exception
\* subclasses other than the root has been gathered.
C7_Witness ==
    /\ Built
    /\ \E c \in exc_classes :
          \E i, j, k \in 1..Len(MroOf(c)) :
             /\ i < j /\ j < k
             /\ IsSubclass(MroOf(c)[i], Exception)
             /\ ~IsSubclass(MroOf(c)[j], Exception)
             /\ IsSubclass(MroOf(c)[k], Exception) /\ MroOf(c)[k] # Exception
             /\ MroOf(c)[k] \in nodes

\* The submodules whose import succeeds.
LoadableModules ==
    <<RootName>> \o
    (IF is_package
     THEN SelectSeq([i \in 1..NumSubmodules |-> IF sub_load[i] = "ok" THEN SubmoduleNames[i]
                                                 ELSE <<>>],
                    LAMBDA m : m # <<>>)
     ELSE <<>>)

\* C8: once the root module has been imported, no failure of a submodule
\* ends the process, and the set find_exceptions_recursive returns holds
\* the Exception subclasses of every module that loads.
C8_SubmoduleFailuresSkipped ==
    root_load = "ok" =>
      /\ exit_code # "traceback"
      /\ pc = "check_empty" => exc_classes = ExceptionsIn(LoadableModules)

\* C9 as stated: the walk of an input class's __mro__ adds no class that
\* comes after a class that is not an Exception subclass.
C9_WalkStopsAtNonException ==
    Built =>
      \A c \in exc_classes :
         \A i, j \in 1..Len(MroOf(c)) :
            (i < j /\ ~IsSubclass(MroOf(c)[i], Exception))
               => MroOf(c)[j] \notin GatherWalk(MroOf(c), 1)

\* C9 as the code has it: the walk skips a class that is not an Exception
\* subclass and goes on to object, so NodeSet is the root together with
\* every Exception subclass found anywhere in the __mro__ of an input class.
C9_WalkSkipsNonException ==
    Built =>
      nodes = {Exception} \cup
              {a \in Classes : \E c \in exc_classes :
                                  a \in Range(MroOf(c)) /\ IsSubclass(a, Exception)}

\* An Exception subclass other than the root that comes after a mixin in
\* the __mro__ of an input class is in NodeSet.
C9_Witness ==
    /\ Built
    /\ \E c \in exc_classes :
          \E i, j \in 1..Len(MroOf(c)) :
             /\ i < j
             /\ ~IsSubclass(MroOf(c)[i], Exception)
             /\ MroOf(c)[j] # Exception
             /\ MroOf(c)[j] \in nodes

\* The nodes reachable from the classes of S along the children map.
RECURSIVE ReachableFrom(_)
ReachableFrom(S) ==
    LET next == S \cup UNION {Range(Get(children, k)) : k \in S}
    IN IF next = S THEN S ELSE ReachableFrom(next)

\* The printed line is the line of node n: a connector, then n's display
\* name, then the marker if n is a multi-parent node.
IsLineOf(line, n) ==
    \E k \in 1..Len(line) :
       /\ line[k] \in {Tee, Elbow}
       /\ SubSeq(line, k + 1, Len(line)) =
             get_display_name(n) \o (IF n \in multi_parents THEN <<Star>> ELSE <<>>)

\* The number of printed lines that are node lines (the root's included).
NodeLineCount == Len(StripSeparators(output))

\* C10: every edge of the children map goes from a proper ancestor to a
\* descendant, every node is reachable from the root, and the rendering
\* prints every node: at least one line for each, and exactly as many node
\* lines as there are nodes when all_paths is False.
C10_AcyclicAndAllPrinted ==
    /\ Built =>
          /\ \A k \in DOMAIN children :
                \A c \in Range(children[k]) : c # k /\ k \in Range(MroOf(c))
          /\ ReachableFrom({Exception}) = nodes
    /\ pc = "done" =>
          /\ output[1] = get_display_name(Exception)
          /\ \A n \in nodes \ {Exception} :
                \E i \in 2..Len(output) : IsLineOf(output[i], n)
          /\ NodeLineCount >= Cardinality(nodes)
          /\ ~all_paths => NodeLineCount = Cardinality(nodes)

\* With duplication a tree three levels deep has been printed with more
\* node lines than nodes.
C10_Witness ==
    /\ pc = "done"
    /\ all_paths
    /\ NodeLineCount > Cardinality(nodes)
    /\ \E k \in DOMAIN children \ {Exception} : Len(children[k]) > 0
====
